---- MODULE Spec2Model ----
(***************************************************************************)
(* Model of the user service of main.go: the ServeMux registered in main,   *)
(* the handlers handleRoot, handleUsers, createUser and getUser, and the    *)
(* users table they reach through App.DB.                                   *)
(*                                                                          *)
(* Strings that the code inspects (paths, usernames, emails) are sequences  *)
(* of one-character strings, so that HasPrefix, TrimPrefix, Split,          *)
(* TrimSpace and Atoi are computed as the Go library computes them.         *)
(***************************************************************************)
EXTENDS Integers, Sequences, FiniteSets, TLC

\* ------------------------------------------------------------------ bounds

\* Handlers that may be running at the same time.
NumSlots == 2
\* Requests accepted in one behaviour.
MaxRequests == 2
\* Seconds of wall-clock time one Tick stands for.
TickSeconds == 30

\* ------------------------------------------------------- program constants

\* context.WithTimeout(r.Context(), 60*time.Second)
TimeoutSeconds == 60

StatusOK == 200
StatusCreated == 201
StatusBadRequest == 400
StatusNotFound == 404
StatusInternalServerError == 500

\* ------------------------------------------------------------------ strings

Digits == {"0", "1", "2", "3", "4", "5", "6", "7", "8", "9"}

DigitVal(c) ==
  CASE c = "0" -> 0 [] c = "1" -> 1 [] c = "2" -> 2 [] c = "3" -> 3
    [] c = "4" -> 4 [] c = "5" -> 5 [] c = "6" -> 6 [] c = "7" -> 7
    [] c = "8" -> 8 [] c = "9" -> 9

\* unicode.IsSpace on the characters the model uses
IsSpace(c) == c \in {" ", "\t", "\n", "\r"}

\* strings.HasPrefix
HasPrefix(s, p) == Len(s) >= Len(p) /\ SubSeq(s, 1, Len(p)) = p

\* strings.TrimPrefix
TrimPrefix(s, p) == IF HasPrefix(s, p) THEN SubSeq(s, Len(p) + 1, Len(s)) ELSE s

\* strings.Split(s, sep) for a one-character sep: always at least one part,
\* Split("", "/") = [""] and Split("1/", "/") = ["1", ""].
RECURSIVE Split(_, _)
Split(s, sep) ==
  IF \A i \in 1..Len(s) : s[i] # sep
  THEN <<s>>
  ELSE LET k == CHOOSE i \in 1..Len(s) : s[i] = sep /\ \A j \in 1..(i - 1) : s[j] # sep
       IN  <<SubSeq(s, 1, k - 1)>> \o Split(SubSeq(s, k + 1, Len(s)), sep)

\* strings.TrimSpace: drops leading and trailing white space only
RECURSIVE TrimLeft(_)
TrimLeft(s) == IF s # <<>> /\ IsSpace(Head(s)) THEN TrimLeft(Tail(s)) ELSE s

RECURSIVE TrimRight(_)
TrimRight(s) ==
  IF s # <<>> /\ IsSpace(s[Len(s)]) THEN TrimRight(SubSeq(s, 1, Len(s) - 1)) ELSE s

\* Faulty variant: the fields are compared with "" without trimming them
TrimSpace_None(s) == s

TrimSpace(s) == TrimRight(TrimLeft(s))

\* The value of a string of decimal digits
RECURSIVE DecValue(_)
DecValue(ds) ==
  IF ds = <<>> THEN 0
  ELSE 10 * DecValue(SubSeq(ds, 1, Len(ds) - 1)) + DigitVal(ds[Len(ds)])

\* strconv.Atoi: an optional sign, then one or more decimal digits
Atoi(s) ==
  LET signed == s # <<>> /\ Head(s) \in {"+", "-"}
      ds     == IF signed THEN Tail(s) ELSE s
  IN  IF ds = <<>> \/ \E i \in 1..Len(ds) : ds[i] \notin Digits
      THEN [ok |-> FALSE, val |-> 0]
      ELSE [ok |-> TRUE,
            val |-> IF signed /\ Head(s) = "-" THEN 0 - DecValue(ds) ELSE DecValue(ds)]

\* ------------------------------------------------------------ JSON bodies

\* A request body: either text that is not JSON, or a JSON object whose
\* username and email members are absent, null, a number or a string.
JAbsent == [t |-> "absent", v |-> <<>>]
JNumber == [t |-> "number", v |-> <<>>]
JString(s) == [t |-> "string", v |-> s]

Malformed == [wellformed |-> FALSE, username |-> JAbsent, email |-> JAbsent]
Object(u, e) == [wellformed |-> TRUE, username |-> u, email |-> e]

\* createUserReq{} before decoding: both fields are the empty string
ZeroReq == [Username |-> <<>>, Email |-> <<>>]

\* encoding/json into a string field: a string is stored, an absent or null
\* member leaves the zero value, any other type is an UnmarshalTypeError.
DecodeField(j) ==
  CASE j.t = "string" -> [err |-> FALSE, val |-> j.v]
    [] j.t \in {"absent", "null"} -> [err |-> FALSE, val |-> <<>>]
    [] OTHER -> [err |-> TRUE, val |-> <<>>]

\* json.NewDecoder(r.Body).Decode(&req)
Decode(body) ==
  IF ~body.wellformed
  THEN [err |-> TRUE, req |-> ZeroReq]
  ELSE LET u == DecodeField(body.username)
           e == DecodeField(body.email)
       IN  [err |-> u.err \/ e.err, req |-> [Username |-> u.val, Email |-> e.val]]

\* ------------------------------------------------------------- responses

NoResp == [status |-> 0, body |-> [none |-> TRUE]]

\* jsonWrite(w, status, v)
jsonWrite(status, v) == [status |-> status, body |-> v]

ErrorBody(msg) == [error |-> msg]
DatabaseError(detail) == [error |-> "Database error", detail |-> detail]

\* What a handler has done when it reaches its persistence call or returns
\* before it: the response it wrote, or the statement it issues.
Reply(h, resp) ==
  [handler |-> h, stmt |-> "none", id |-> 0, username |-> <<>>, email |-> <<>>,
   resp |-> resp]

Query(h, stmt, id, u, e) ==
  [handler |-> h, stmt |-> stmt, id |-> id, username |-> u, email |-> e,
   resp |-> NoResp]

\* ---------------------------------------------------------------- routing

Slash == <<"/">>
UsersPath == <<"/", "u", "s", "e", "r", "s">>
UsersPrefix == UsersPath \o Slash

\* path.Clean on the segments of a rooted path: empty and "." segments are
\* dropped, ".." removes the segment before it (and is dropped at the root).
RECURSIVE CleanSegs(_, _)
CleanSegs(parts, acc) ==
  IF parts = <<>> THEN acc
  ELSE LET h == Head(parts)
       IN  IF h = <<>> \/ h = <<".">> THEN CleanSegs(Tail(parts), acc)
           ELSE IF h = <<".", ".">>
                THEN CleanSegs(Tail(parts),
                               IF acc = <<>> THEN acc ELSE SubSeq(acc, 1, Len(acc) - 1))
                ELSE CleanSegs(Tail(parts), Append(acc, h))

RECURSIVE JoinSegs(_)
JoinSegs(segs) ==
  IF segs = <<>> THEN <<>> ELSE Slash \o Head(segs) \o JoinSegs(Tail(segs))

\* net/http cleanPath: the canonical path, its trailing slash kept
cleanPath(p) ==
  IF p = <<>> THEN Slash
  ELSE LET q  == IF Head(p) # "/" THEN Slash \o p ELSE p
           j  == JoinSegs(CleanSegs(Split(q, "/"), <<>>))
           np == IF j = <<>> THEN Slash ELSE j
       IN  IF q[Len(q)] = "/" /\ np # Slash THEN np \o Slash ELSE np

\* Faulty variant: handleRoot checks the method only, not the path
handleRoot_AnyPath(method, path) ==
  IF method # "GET"
  THEN Reply("handleRoot", jsonWrite(StatusNotFound, ErrorBody("Not Found")))
  ELSE Reply("handleRoot", jsonWrite(StatusOK, [message |-> "Hello World from Go"]))

\* (a *App) handleRoot
handleRoot(method, path) ==
  IF method # "GET" \/ path # Slash
  THEN Reply("handleRoot", jsonWrite(StatusNotFound, ErrorBody("Not Found")))
  ELSE Reply("handleRoot", jsonWrite(StatusOK, [message |-> "Hello World from Go"]))

\* (a *App) createUser, up to the QueryRowContext call
createUser(body) ==
  LET d == Decode(body)
  IN  IF d.err
      THEN Reply("createUser", jsonWrite(StatusBadRequest, ErrorBody("invalid JSON")))
      ELSE IF TrimSpace(d.req.Username) = <<>> \/ TrimSpace(d.req.Email) = <<>>
           THEN Reply("createUser",
                      jsonWrite(StatusBadRequest,
                                ErrorBody("username and email are required")))
           ELSE Query("createUser", "insert", 0, d.req.Username, d.req.Email)

\* Faulty variant: the error of strconv.Atoi is dropped and its zero result is used
getUser_IgnoreAtoiErr(path) ==
  LET parts == Split(TrimPrefix(path, UsersPrefix), "/")
  IN  IF Len(parts) < 1 \/ parts[1] = <<>>
      THEN Reply("getUser", jsonWrite(StatusBadRequest, ErrorBody("Invalid user_id")))
      ELSE Query("getUser", "select", Atoi(parts[1]).val, <<>>, <<>>)

\* Faulty variant: the identifier is parsed from the final segment, not the first
getUser_FinalSegment(path) ==
  LET parts == Split(TrimPrefix(path, UsersPrefix), "/")
      final == parts[Len(parts)]
  IN  IF Len(parts) < 1 \/ final = <<>>
      THEN Reply("getUser", jsonWrite(StatusBadRequest, ErrorBody("Invalid user_id")))
      ELSE LET a == Atoi(final)
           IN  IF ~a.ok
               THEN Reply("getUser",
                          jsonWrite(StatusBadRequest, ErrorBody("Invalid user_id")))
               ELSE Query("getUser", "select", a.val, <<>>, <<>>)

\* (a *App) getUser, up to the QueryRowContext call
getUser(path) ==
  LET parts == Split(TrimPrefix(path, UsersPrefix), "/")
  IN  IF Len(parts) < 1 \/ parts[1] = <<>>
      THEN Reply("getUser", jsonWrite(StatusBadRequest, ErrorBody("Invalid user_id")))
      ELSE LET a == Atoi(parts[1])
           IN  IF ~a.ok
               THEN Reply("getUser",
                          jsonWrite(StatusBadRequest, ErrorBody("Invalid user_id")))
               ELSE Query("getUser", "select", a.val, <<>>, <<>>)

\* (a *App) handleUsers
handleUsers(method, path, body) ==
  IF method = "POST" /\ path = UsersPath THEN createUser(body)
  ELSE IF method = "GET" /\ HasPrefix(path, UsersPrefix) THEN getUser(path)
  ELSE Reply("handleUsers", jsonWrite(StatusNotFound, ErrorBody("Not Found")))

\* The ServeMux built in main: patterns "/", "/users" and "/users/".  A request
\* other than CONNECT whose path is not canonical is answered by the mux with a
\* redirect to the canonical path and reaches no handler.
ServeMux(method, path, body) ==
  IF method # "CONNECT" /\ cleanPath(path) # path
  THEN Reply("redirect", [status |-> 301, body |-> [location |-> cleanPath(path)]])
  ELSE IF path = UsersPath \/ HasPrefix(path, UsersPrefix)
       THEN handleUsers(method, path, body)
       ELSE handleRoot(method, path)

\* ------------------------------------------------------------ persistence

NoErr == "nil"
ErrNoRows == "sql: no rows in result set"
ErrDeadline == "context deadline exceeded"
ErrCanceled == "context canceled"
ErrConn == "failed to connect"
ErrConstraint == "constraint violation"

NoResult == [err |-> NoErr, user_id |-> 0, username |-> <<>>, email |-> <<>>]
Failed(e) == [err |-> e, user_id |-> 0, username |-> <<>>, email |-> <<>>]
Row(id, u, e) == [user_id |-> id, username |-> u, email |-> e]

\* The row scanned from RETURNING user_id
Returning(id) == [err |-> NoErr, user_id |-> id, username |-> <<>>, email |-> <<>>]

\* Faulty variant: the identifier is taken from the number of rows of the first insert
\* and never advanced
NextVal_Stuck(s) == IF s = 0 THEN 1 ELSE s

\* The identifier the table's sequence hands to the next INSERT
NextVal(s) == s + 1

\* Faulty variant: the trimmed values are stored instead of the submitted ones
InsertRow_Trimmed(tbl, id, u, e) == tbl \cup {Row(id, TrimSpace(u), TrimSpace(e))}

\* Faulty variant: an upsert that replaces the row of the same username
InsertRow_Upsert(tbl, id, u, e) ==
  {row \in tbl : row.username # u} \cup {Row(id, u, e)}

\* INSERT INTO users (username, email) VALUES ($1, $2)
InsertRow(tbl, id, u, e) == tbl \cup {Row(id, u, e)}

\* SELECT user_id, username, email FROM users WHERE user_id = $1, scanned
SelectById(tbl, id) ==
  IF \E row \in tbl : row.user_id = id
  THEN LET row == CHOOSE row \in tbl : row.user_id = id
       IN  [err |-> NoErr, user_id |-> row.user_id, username |-> row.username,
            email |-> row.email]
  ELSE Failed(ErrNoRows)

\* Faulty variant: the 500 carries a fixed text instead of err.Error()
createUserFinish_GenericDetail(res) ==
  IF res.err # NoErr
  THEN jsonWrite(StatusInternalServerError, DatabaseError("internal error"))
  ELSE jsonWrite(StatusCreated,
                 [message |-> "User created successfully", user_id |-> res.user_id])

\* createUser after Scan
createUserFinish(res) ==
  IF res.err # NoErr
  THEN jsonWrite(StatusInternalServerError, DatabaseError(res.err))
  ELSE jsonWrite(StatusCreated,
                 [message |-> "User created successfully", user_id |-> res.user_id])

\* Faulty variant: sql.ErrNoRows is not told apart from the other errors
getUserFinish_NoRowsAsError(res) ==
  IF res.err # NoErr
  THEN jsonWrite(StatusInternalServerError, DatabaseError(res.err))
  ELSE jsonWrite(StatusOK,
                 [user_id |-> res.user_id, username |-> res.username,
                  email |-> res.email])

\* getUser after Scan
getUserFinish(res) ==
  IF res.err = ErrNoRows
  THEN jsonWrite(StatusNotFound, ErrorBody("User not found"))
  ELSE IF res.err # NoErr
       THEN jsonWrite(StatusInternalServerError, DatabaseError(res.err))
       ELSE jsonWrite(StatusOK,
                      [user_id |-> res.user_id, username |-> res.username,
                       email |-> res.email])

Finish(h, res) == IF h = "createUser" THEN createUserFinish(res) ELSE getUserFinish(res)

\* --------------------------------------------------------------- requests

Seg1 == <<"1">>
SegAbc == <<"a", "b", "c">>
SegExtra == <<"e", "x">>

\* Paths after /users/
GetTails ==
  {<<>>, Seg1, SegAbc, Seg1 \o Slash \o SegExtra, Slash \o Seg1}

Paths ==
  {Slash, UsersPath, <<"/", "o">>} \cup {UsersPrefix \o t : t \in GetTails}

Alice == <<"a", "l">>
AliceMail == <<"a", "@", "x">>
Padded == <<" ", "b", "o", " ">>
Blank == <<" ", "\t">>

\* The one body that passes validation: its username keeps its white space
Valid == Object(JString(Padded), JString(AliceMail))

Bodies ==
  { Malformed,
    Valid,
    Object(JString(Blank), JString(AliceMail)),
    Object(JString(Alice), JAbsent),
    Object(JNumber, JString(AliceMail)) }

NoBody == Object(JAbsent, JAbsent)

Req(m, p, b) == [method |-> m, path |-> p, body |-> b]

\* The requests a client sends: every GET, every create-user body, and the
\* other methods on the paths where they decide the dispatch.
Requests ==
  {Req("GET", p, NoBody) : p \in Paths}
    \cup {Req("POST", UsersPath, b) : b \in Bodies}
    \cup { Req("POST", UsersPrefix, Valid),
           Req("DELETE", UsersPrefix \o Seg1, NoBody),
           Req("CONNECT", UsersPrefix \o Slash \o Seg1, NoBody) }

Faults == {"none", "conn", "constraint"}

\* ------------------------------------------------------------------ state

VARIABLES
  slots,     \* the handler running in each slot: its request, position, context
  users,     \* the users table
  seq,       \* the last value handed out by the table's user_id sequence
  issued,    \* history: the record behind each 201 response, in order
  accepted   \* history: how many requests the server has accepted

vars == <<slots, users, seq, issued, accepted>>

Slots == 1..NumSlots

IdleSlot ==
  [pc |-> "idle", method |-> "", path |-> <<>>, body |-> NoBody, handler |-> "",
   stmt |-> "none", id |-> 0, username |-> <<>>, email |-> <<>>, stmts |-> 0,
   known |-> 0, elapsed |-> 0, ctx |-> "live", executed |-> FALSE, ready |-> FALSE,
   result |-> NoResult, responses |-> <<>>]

Init ==
  /\ slots = [r \in Slots |-> IdleSlot]
  /\ users = {}
  /\ seq = 0
  /\ issued = <<>>
  /\ accepted = 0

\* Faulty variant: the context carries no deadline
Expired_Never(e) == FALSE

\* context.WithTimeout: the deadline has passed after e ticks
Expired(e) == e * TickSeconds >= TimeoutSeconds

\* The tick at which the deadline passes
DeadlineTicks == (TimeoutSeconds + TickSeconds - 1) \div TickSeconds

\* ctx.Err()
CtxErr(ctx) == IF ctx = "deadline" THEN ErrDeadline ELSE ErrCanceled

\* The handler invocation for request q, run up to its persistence call, or to
\* its return when it answers without one; known is the number of 201 responses
\* written before the request arrived.
Begin(q, n) ==
  LET o == ServeMux(q.method, q.path, q.body)
  IN  [IdleSlot EXCEPT
         !.pc = IF o.stmt = "none" THEN "done" ELSE "query",
         !.method = q.method, !.path = q.path, !.body = q.body,
         !.handler = o.handler, !.stmt = o.stmt, !.id = o.id,
         !.username = o.username, !.email = o.email,
         !.stmts = IF o.stmt = "none" THEN 0 ELSE 1, !.known = n,
         !.responses = IF o.stmt = "none" THEN <<o.resp>> ELSE <<>>]

\* A request arrives and is served in the first free slot: the mux dispatches
\* it and the handler runs up to its persistence call, or to its return.
Arrive(r, q) ==
  /\ slots[r].pc = "idle"
  /\ \A k \in 1..(r - 1) : slots[k].pc # "idle"
  /\ accepted < MaxRequests
  /\ slots' = [slots EXCEPT ![r] = Begin(q, Len(issued))]
  /\ accepted' = accepted + 1
  /\ UNCHANGED <<users, seq, issued>>

\* The statement's result reaches the handler only while its context is live.
Deliver(s, res) ==
  [s EXCEPT !.executed = TRUE, !.ready = (s.ctx = "live"),
            !.result = IF s.ctx = "live" THEN res ELSE NoResult]

\* The database runs the INSERT ... RETURNING user_id of slot r.
DbInsert(r, fault) ==
  /\ slots[r].pc = "query" /\ slots[r].stmt = "insert" /\ ~slots[r].executed
  /\ LET s  == slots[r]
         id == NextVal(seq)
     IN  CASE fault = "none" ->
                /\ users' = InsertRow(users, id, s.username, s.email)
                /\ seq' = id
                /\ slots' = [slots EXCEPT ![r] = Deliver(s, Returning(id))]
           [] fault = "constraint" ->
                /\ users' = users
                /\ seq' = id
                /\ slots' = [slots EXCEPT ![r] = Deliver(s, Failed(ErrConstraint))]
           [] OTHER ->
                /\ UNCHANGED <<users, seq>>
                /\ slots' = [slots EXCEPT ![r] = Deliver(s, Failed(ErrConn))]
  /\ UNCHANGED <<issued, accepted>>

\* The database runs the SELECT ... WHERE user_id = $1 of slot r.
DbSelect(r, fault) ==
  /\ slots[r].pc = "query" /\ slots[r].stmt = "select" /\ ~slots[r].executed
  /\ fault \in {"none", "conn"}
  /\ slots' = [slots EXCEPT ![r] =
       Deliver(slots[r], IF fault = "none" THEN SelectById(users, slots[r].id)
                         ELSE Failed(ErrConn))]
  /\ UNCHANGED <<users, seq, issued, accepted>>

\* The handler of slot r writes its response for the Scan result res and
\* returns; the slot keeps that result and the state of its context.
Respond(r, res) ==
  LET s    == slots[r]
      resp == Finish(s.handler, res)
  IN  /\ slots' = [slots EXCEPT ![r] =
             [s EXCEPT !.pc = "done", !.responses = Append(s.responses, resp),
                       !.result = res, !.elapsed = 0, !.executed = FALSE]]
      /\ issued' = IF resp.status = StatusCreated
                   THEN Append(issued, Row(resp.body.user_id, s.username, s.email))
                   ELSE issued
      /\ UNCHANGED <<users, seq, accepted>>

\* Scan returns the statement's result.
Return(r) ==
  /\ slots[r].pc = "query" /\ slots[r].ready
  /\ Respond(r, slots[r].result)

\* Scan returns the context's error: cancelled or past its deadline.
CtxReturn(r) ==
  /\ slots[r].pc = "query" /\ slots[r].ctx # "live"
  /\ Respond(r, Failed(CtxErr(slots[r].ctx)))

\* The client disconnects: r.Context() is cancelled, and the context derived
\* from it with it (its timer is stopped).
ClientCancel(r) ==
  /\ slots[r].pc = "query" /\ slots[r].ctx = "live"
  /\ slots' = [slots EXCEPT ![r].ctx = "canceled", ![r].elapsed = 0]
  /\ UNCHANGED <<users, seq, issued, accepted>>

\* Time passes for every handler waiting on its statement.
Tick ==
  /\ \E r \in Slots :
       slots[r].pc = "query" /\ slots[r].ctx = "live" /\ slots[r].elapsed < DeadlineTicks
  /\ slots' = [r \in Slots |->
       LET s == slots[r]
       IN  IF s.pc = "query" /\ s.ctx = "live" /\ s.elapsed < DeadlineTicks
           THEN IF Expired(s.elapsed + 1)
                THEN [s EXCEPT !.elapsed = 0, !.ctx = "deadline"]
                ELSE [s EXCEPT !.elapsed = s.elapsed + 1]
           ELSE s]
  /\ UNCHANGED <<users, seq, issued, accepted>>

\* The response is on the wire and the slot is free again.
Close(r) ==
  /\ slots[r].pc = "done"
  /\ slots' = [slots EXCEPT ![r] = IdleSlot]
  /\ UNCHANGED <<users, seq, issued, accepted>>

Next ==
  \/ \E r \in Slots, q \in Requests : Arrive(r, q)
  \/ \E r \in Slots, f \in Faults : DbInsert(r, f)
  \/ \E r \in Slots, f \in Faults : DbSelect(r, f)
  \/ \E r \in Slots : Return(r)
  \/ \E r \in Slots : CtxReturn(r)
  \/ \E r \in Slots : ClientCancel(r)
  \/ Tick
  \/ \E r \in Slots : Close(r)

Spec == Init /\ [][Next]_vars

\* The scheduling the runtime gives: every handler that can run does, and time
\* passes; the database is not assumed ever to answer.
LiveSpec ==
  /\ Spec
  /\ WF_vars(Tick)
  /\ \A r \in Slots : WF_vars(Return(r)) /\ WF_vars(CtxReturn(r))

\* ----------------------------------------------------------------- claims

Done(s) == s.pc = "done"
Resp(s) == s.responses[1]
IssuedIds(n) == {issued[i].user_id : i \in 1..n}
UserIds == {row.user_id : row \in users}

\* Text made of white space only (the empty text included)
AllSpace(t) == \A i \in 1..Len(t) : t[i] \in {" ", "\t", "\n", "\r"}

\* A JSON member that leaves its field empty or white space: absent, null or
\* a blank string
BlankMember(j) == j.t \in {"absent", "null"} \/ (j.t = "string" /\ AllSpace(j.v))

\* A body that parses as JSON into createUserReq
Parses(b) ==
  /\ b.wellformed
  /\ b.username.t \in {"absent", "null", "string"}
  /\ b.email.t \in {"absent", "null", "string"}

\* The text between the /users/ prefix and the next slash
FirstSegment(path) ==
  LET tail == SubSeq(path, Len(UsersPrefix) + 1, Len(path))
      stop == {i \in 1..Len(tail) : tail[i] = "/"}
      k    == IF stop = {} THEN Len(tail) + 1
              ELSE CHOOSE i \in stop : \A j \in stop : i <= j
  IN  SubSeq(tail, 1, k - 1)

\* Decimal integer text: an optional sign and at least one digit
IntegerText(t) ==
  LET ds == IF t # <<>> /\ t[1] \in {"+", "-"} THEN Tail(t) ELSE t
  IN  ds # <<>> /\ \A i \in 1..Len(ds) : ds[i] \in Digits

\* C1: a successful create-user answers 201 with a positive user_id that no
\* earlier 201 carried, for a username and email that are not blank; and a
\* get-user that arrives after that 201 and whose SELECT is not failed by the
\* persistence layer answers 200 with the username and email as submitted.
C1_RoundTrip ==
  /\ \A i \in 1..Len(issued) :
       /\ issued[i].user_id > 0
       /\ issued[i].user_id \notin IssuedIds(i - 1)
       /\ ~AllSpace(issued[i].username) /\ ~AllSpace(issued[i].email)
  /\ \A r \in Slots :
       LET s == slots[r]
       IN  Done(s) /\ s.handler = "getUser" /\ s.id \in IssuedIds(s.known) =>
             /\ Resp(s).status \in {StatusOK, StatusInternalServerError}
             /\ s.result.err \notin {ErrConn, ErrCanceled, ErrDeadline} =>
                  Resp(s).status = StatusOK
             /\ Resp(s).status = StatusOK =>
                  \E i \in 1..s.known :
                    /\ issued[i].user_id = Resp(s).body.user_id
                    /\ issued[i].user_id = s.id
                    /\ issued[i].username = Resp(s).body.username
                    /\ issued[i].email = Resp(s).body.email

\* C1 witness: a get-user answered 200 for an identifier a previous 201 carried,
\* whose username was submitted with surrounding white space.
C1_Witness ==
  \E r \in Slots :
    /\ Done(slots[r]) /\ slots[r].handler = "getUser"
    /\ slots[r].id \in IssuedIds(slots[r].known)
    /\ Resp(slots[r]).status = StatusOK
    /\ Resp(slots[r]).body.username = Padded

\* C2: no two 201 responses ever carry the same user_id, whatever the
\* interleaving of the create-user requests.
C2_DistinctIds ==
  \A i, j \in 1..Len(issued) : i # j => issued[i].user_id # issued[j].user_id

\* C2 witness: two create-user requests that overlapped (each arrived before
\* any 201 was written) have both been answered 201.
C2_Witness ==
  /\ Len(issued) = 2
  /\ \A r \in Slots :
       /\ Done(slots[r]) /\ slots[r].handler = "createUser"
       /\ slots[r].known = 0
       /\ Resp(slots[r]).status = StatusCreated

\* C3: a create-user request whose body parses as JSON but whose username or
\* email is absent, empty or white space only is answered 400 "username and
\* email are required" and issues no statement.
C3_BlankRejected ==
  \A r \in Slots :
    LET s == slots[r]
    IN  /\ s.pc # "idle" /\ s.handler = "createUser"
        /\ Parses(s.body)
        /\ (BlankMember(s.body.username) \/ BlankMember(s.body.email))
        => /\ Done(s)
           /\ s.responses =
                <<jsonWrite(StatusBadRequest, ErrorBody("username and email are required"))>>
           /\ s.stmts = 0 /\ s.stmt = "none"

\* C3 witness: a create-user whose username is white space only was answered.
C3_Witness ==
  \E r \in Slots :
    /\ Done(slots[r]) /\ slots[r].handler = "createUser"
    /\ slots[r].body.username = JString(Blank)
    /\ Resp(slots[r]).status = StatusBadRequest

\* C4: get-user on an integer identifier that no row carries answers 404 "User
\* not found" unless the persistence call failed; an empty SELECT is always 404,
\* and 500 "Database error" is written only for an error other than no rows.
C4_NotFound ==
  \A r \in Slots :
    LET s == slots[r]
    IN  Done(s) /\ s.handler = "getUser" /\ s.stmt = "select" =>
          /\ s.id \notin UserIds =>
               \/ Resp(s) = jsonWrite(StatusNotFound, ErrorBody("User not found"))
               \/ /\ Resp(s).status = StatusInternalServerError
                  /\ s.result.err \in {ErrConn, ErrCanceled, ErrDeadline}
          /\ s.result.err = ErrNoRows =>
               Resp(s) = jsonWrite(StatusNotFound, ErrorBody("User not found"))
          /\ Resp(s).status = StatusInternalServerError =>
               /\ s.result.err \notin {NoErr, ErrNoRows}
               /\ Resp(s).body = DatabaseError(s.result.err)

\* C4 witness: a get-user for an identifier that no row carries was answered 404.
C4_Witness ==
  \E r \in Slots :
    /\ Done(slots[r]) /\ slots[r].handler = "getUser" /\ slots[r].stmt = "select"
    /\ slots[r].id \notin UserIds
    /\ Resp(slots[r]).status = StatusNotFound

Route(method, path) ==
  IF method = "GET" /\ path = Slash THEN "root"
  ELSE IF method = "POST" /\ path = UsersPath THEN "create"
  ELSE IF method = "GET" /\ HasPrefix(path, UsersPrefix) THEN "get"
  ELSE "other"

\* A slot's request went where the routing contract sends it
RoutedAsContract(s) ==
  LET k == Route(s.method, s.path)
  IN  /\ k = "root" =>
            /\ s.handler = "handleRoot"
            /\ s.responses = <<jsonWrite(StatusOK, [message |-> "Hello World from Go"])>>
      /\ k = "create" => s.handler = "createUser"
      /\ k = "get" => s.handler = "getUser"
      /\ k = "other" =>
            /\ s.handler \in {"handleRoot", "handleUsers"}
            /\ s.responses = <<jsonWrite(StatusNotFound, ErrorBody("Not Found"))>>
            /\ s.stmts = 0 /\ s.stmt = "none"

\* A rooted path with no empty segment before its end and no "." or ".." segment
Canonical(path) ==
  /\ path # <<>> /\ path[1] = "/"
  /\ LET segs == Split(Tail(path), "/")
     IN  \A i \in 1..Len(segs) :
           /\ segs[i] \notin {<<".">>, <<".", ".">>}
           /\ segs[i] = <<>> => i = Len(segs)

OneResponse ==
  \A r \in Slots :
    /\ Len(slots[r].responses) <= 1
    /\ Done(slots[r]) <=> Len(slots[r].responses) = 1

\* A handler whose context ended before its statement completed reported the
\* context's error as 500 "Database error"
CancelReported ==
  \A r \in Slots :
    LET s == slots[r]
    IN  Done(s) /\ s.stmts = 1 /\ s.ctx # "live" /\ ~s.ready =>
          s.responses =
            <<jsonWrite(StatusInternalServerError,
                        DatabaseError(IF s.ctx = "deadline"
                                      THEN "context deadline exceeded"
                                      ELSE "context canceled"))>>

\* C7: no handler hangs.  Every handler waiting on its statement returns, even
\* if the database never answers; one whose client disconnected or whose 60
\* seconds elapsed first reports that error as 500; and every request gets
\* exactly one response.
C7_NoHang ==
  /\ \A r \in Slots : (slots[r].pc = "query") ~> (slots[r].pc = "done")
  /\ [](CancelReported /\ OneResponse)

\* C7 witness: a handler returned 500 for a deadline that passed while its
\* statement had not completed.
C7_Witness ==
  \E r \in Slots :
    /\ Done(slots[r]) /\ slots[r].ctx = "deadline" /\ ~slots[r].ready
    /\ Resp(slots[r]).status = StatusInternalServerError
    /\ Resp(slots[r]).body.detail = ErrDeadline

\* C8: each request issues at most one statement: one (an INSERT for
\* create-user, a SELECT for get-user) when it is answered from the statement's
\* outcome, none when it is answered 400, a routing 404, the greeting or a
\* redirect; and an error of that one attempt is answered 500 with the error
\* text as detail.
C8_SingleAttempt ==
  \A r \in Slots :
    LET s == slots[r]
    IN  /\ s.stmts <= 1
        /\ s.pc = "query" => s.stmts = 1
        /\ s.stmts = 1 =>
             /\ s.handler = "createUser" => s.stmt = "insert"
             /\ s.handler = "getUser" => s.stmt = "select"
             /\ s.handler \in {"createUser", "getUser"}
        /\ Done(s) =>
             /\ Resp(s).status = StatusBadRequest => s.stmts = 0
             /\ Resp(s) = jsonWrite(StatusNotFound, ErrorBody("Not Found")) => s.stmts = 0
             /\ s.handler \in {"handleRoot", "handleUsers", "redirect"} => s.stmts = 0
             /\ Resp(s).status \in {StatusCreated, StatusInternalServerError} => s.stmts = 1
             /\ s.handler = "getUser" /\ Resp(s).status \in {StatusOK, StatusNotFound} =>
                  s.stmts = 1
             /\ s.stmts = 1 /\ s.result.err \notin {NoErr, ErrNoRows} =>
                  s.responses =
                    <<jsonWrite(StatusInternalServerError, DatabaseError(s.result.err))>>

\* C8 witness: a create-user whose INSERT was rejected by a constraint was
\* answered 500 with that error as detail, after one statement.
C8_Witness ==
  \E r \in Slots :
    /\ Done(slots[r]) /\ slots[r].handler = "createUser" /\ slots[r].stmts = 1
    /\ Resp(slots[r]).status = StatusInternalServerError
    /\ Resp(slots[r]).body.detail = ErrConstraint

\* Every record a 201 response stands for is in the table, and no two rows
\* share a user_id
Persisted ==
  /\ \A i \in 1..Len(issued) : issued[i] \in users
  /\ \A a, b \in users : a.user_id = b.user_id => a = b

\* A step keeps every row as it is; it adds at most one row, and only as the
\* INSERT of a create-user that has not run yet
RowsKept ==
  /\ users \subseteq users'
  /\ Cardinality(users') <= Cardinality(users) + 1
  /\ users' # users =>
       \E r \in Slots :
         /\ slots[r].handler = "createUser" /\ slots[r].pc = "query"
         /\ ~slots[r].executed /\ slots'[r].executed
         /\ users' = users \cup
              {[user_id |-> seq', username |-> slots[r].username,
                email |-> slots[r].email]}

\* C9: stored records are immutable.  Every record behind a 201 stays in the
\* table with its user_id, username and email; root and get-user never change
\* the table; a create-user adds exactly one row and alters none.
C9_Immutable == []Persisted /\ [][RowsKept]_vars

\* C9 witness: two records are stored, created with the same username and
\* email, and both are still in the table.
C9_Witness ==
  /\ Len(issued) = 2 /\ Cardinality(users) = 2
  /\ issued[1].username = issued[2].username
  /\ issued[1] \in users /\ issued[2] \in users

====
